---------------------------- MODULE Spec2Model ----------------------------
(***************************************************************************)
(* Model of the Quake 2 BSP analysis engine of src/server.js:              *)
(* analyzeBspBuffer, readCString, extractFromEntities, classifyClassname.  *)
(*                                                                         *)
(* A buffer is a sequence of bytes (0..255), 1-indexed here, 0-indexed in  *)
(* the source.  A JavaScript string is a sequence of character codes; the  *)
(* 'ascii' decoding of Buffer.toString clears the high bit of every byte.  *)
(* null is the empty tuple and a string value s is the 1-tuple <<s>>.      *)
(***************************************************************************)
EXTENDS Integers, Sequences, FiniteSets, TLC

(***************************************************************************)
(* Program constants.                                                      *)
(***************************************************************************)
Q2_MAGIC == <<73, 66, 83, 80>>            \* 'IBSP'
Q2_VERSION == 38
LUMP_ENTITIES == 0
LUMP_TEXINFO == 5
DTEXINFO_SIZE == 76
HEADER_SIZE == 8
LUMP_COUNT == 19
LUMP_ENTRY_SIZE == 8
NAME_OFFSET == 40
NAME_LEN == 32

Null == <<>>
Some(s) == <<s>>
\* JavaScript truthiness of a value that is null or a string.
Truthy(x) == x # Null /\ x[1] # <<>>

(***************************************************************************)
(* Strings.                                                                *)
(***************************************************************************)
Min(a, b) == IF a < b THEN a ELSE b

\* String.prototype.toLowerCase on characters below 128.
LowerChar(c) == IF c >= 65 /\ c <= 90 THEN c + 32 ELSE c
ToLowerCase(s) == [k \in 1..Len(s) |-> LowerChar(s[k])]

\* s.replace(/\\/g, '/')
ReplaceBackslashes(s) == [k \in 1..Len(s) |-> IF s[k] = 92 THEN 47 ELSE s[k]]

StartsWith(s, p) == Len(s) >= Len(p) /\ SubSeq(s, 1, Len(p)) = p
EndsWith(s, p) == Len(s) >= Len(p) /\ SubSeq(s, Len(s) - Len(p) + 1, Len(s)) = p
Contains(s, p) == \E k \in 1..(Len(s) - Len(p) + 1) : SubSeq(s, k, k + Len(p) - 1) = p

\* The characters below 128 that \s and String.prototype.trim treat as blank.
IsSpace(c) == c \in {9, 10, 11, 12, 13, 32}

\* String.prototype.trim
Trim(s) ==
  LET keep == {k \in 1..Len(s) : ~IsSpace(s[k])}
  IN  IF keep = {} THEN <<>>
      ELSE SubSeq(s, CHOOSE a \in keep : \A b \in keep : a <= b,
                     CHOOSE a \in keep : \A b \in keep : a >= b)

\* s.replace(/\0/g, '')
RECURSIVE StripNul(_)
StripNul(s) ==
  IF s = <<>> THEN <<>>
  ELSE IF Head(s) = 0 THEN StripNul(Tail(s))
  ELSE <<Head(s)>> \o StripNul(Tail(s))

(***************************************************************************)
(* Buffer primitives.                                                      *)
(***************************************************************************)
\* buf.toString('ascii', start, end): start and end are clamped, never throws.
BufToString(buf, start, end) ==
  LET len == Len(buf)
      s == IF start <= 0 THEN 0 ELSE start
      e == IF end > len THEN len ELSE end
  IN  IF start >= len /\ start > 0 THEN <<>>
      ELSE IF e <= s THEN <<>>
      ELSE [k \in 1..(e - s) |-> buf[s + k] % 128]

\* buf.readInt32LE(off) throws a RangeError unless off..off+3 lie in the buffer.
CanReadInt32(buf, off) == off >= 0 /\ off + 4 <= Len(buf)

\* buf.readInt32LE(off): little-endian, the last byte carries the sign.
ReadInt32LE(buf, off) ==
  LET last == buf[off + 4]
  IN  buf[off + 1] + buf[off + 2] * 256 + buf[off + 3] * 65536
      + (IF last >= 128 THEN last - 256 ELSE last) * 16777216

\* buf[i] === 0; an index outside the buffer reads undefined.
ByteIsZero(buf, i) == i >= 0 /\ i < Len(buf) /\ buf[i + 1] = 0

RECURSIVE CStringEnd(_, _, _)
\* The loop of readCString: the first i in start..end-1 with buf[i] === 0, or end.
CStringEnd(buf, i, end) ==
  IF i >= end THEN i
  ELSE IF ByteIsZero(buf, i) THEN i
  ELSE CStringEnd(buf, i + 1, end)

ReadCString(buf, start, maxLen) ==
  LET end == Min(start + maxLen, Len(buf))
      i == CStringEnd(buf, start, end)
  IN  Trim(StripNul(BufToString(buf, start, i)))

(***************************************************************************)
(* Texture names.                                                          *)
(***************************************************************************)
RECURSIVE SkipSlashes(_, _)
\* [\\/]+ : the first position at or after p that holds neither \ nor /.
SkipSlashes(s, p) ==
  IF p <= Len(s) /\ s[p] \in {47, 92} THEN SkipSlashes(s, p + 1) ELSE p

\* name.replace(/^textures[\\/]+/i, '')
StripTexturesPrefix(name) ==
  IF /\ Len(name) >= 9
     /\ ToLowerCase(SubSeq(name, 1, 8)) = <<116, 101, 120, 116, 117, 114, 101, 115>>
     /\ name[9] \in {47, 92}
  THEN SubSeq(name, SkipSlashes(name, 9), Len(name))
  ELSE name

\* `textures/${normalized}.wal`
TexturePath(name) ==
  <<116, 101, 120, 116, 117, 114, 101, 115, 47>>
    \o ReplaceBackslashes(StripTexturesPrefix(name))
    \o <<46, 119, 97, 108>>

(***************************************************************************)
(* Sets of strings: a JavaScript Set keeps insertion order, so it is a     *)
(* sequence without repetition.                                            *)
(***************************************************************************)
Elems(q) == {q[k] : k \in 1..Len(q)}
SetAdd(q, x) == IF x \in Elems(q) THEN q ELSE Append(q, x)

\* The default comparison of Array.prototype.sort: by code units, a proper
\* prefix first.
LexLess(a, b) ==
  \E k \in 1..(Min(Len(a), Len(b)) + 1) :
    /\ SubSeq(a, 1, k - 1) = SubSeq(b, 1, k - 1)
    /\ \/ k = Len(a) + 1 /\ k <= Len(b)
       \/ k <= Len(a) /\ k <= Len(b) /\ a[k] < b[k]

RECURSIVE InsertSorted(_, _)
InsertSorted(q, x) ==
  IF q = <<>> THEN <<x>>
  ELSE IF LexLess(x, Head(q)) THEN <<x>> \o q
  ELSE <<Head(q)>> \o InsertSorted(Tail(q), x)

RECURSIVE SortFrom(_, _)
SortFrom(q, acc) ==
  IF q = <<>> THEN acc ELSE SortFrom(Tail(q), InsertSorted(acc, Head(q)))

\* Mutant of SortedArray: the array is returned in insertion order.
Mut_SortedArray(q) == q

\* Array.from(set).sort()
SortedArray(q) == SortFrom(q, <<>>)

(***************************************************************************)
(* Entity statistics.                                                      *)
(***************************************************************************)
createEmptyEntityStats ==
  [weapons |-> <<>>, armors |-> <<>>,
   spawnPoints |-> [deathmatch |-> 0, coop |-> 0, start |-> 0, intermission |-> 0],
   items |-> <<>>]

\* Mutant of inc: the counter is set to 1 and never incremented.
Mut_inc(map, key) ==
  IF key \in DOMAIN map THEN [map EXCEPT ![key] = 1] ELSE map @@ (key :> 1)

\* map[key] = (map[key] || 0) + 1
inc(map, key) ==
  IF key \in DOMAIN map THEN [map EXCEPT ![key] = @ + 1] ELSE map @@ (key :> 1)

interestingItems ==
  { <<105, 116, 101, 109, 95, 104, 101, 97, 108, 116, 104>>,                    \* item_health
    <<105, 116, 101, 109, 95, 104, 101, 97, 108, 116, 104, 95, 108, 97, 114, 103, 101>>, \* item_health_large
    <<105, 116, 101, 109, 95, 104, 101, 97, 108, 116, 104, 95, 109, 101, 103, 97>>,      \* item_health_mega
    <<105, 116, 101, 109, 95, 113, 117, 97, 100>>,                              \* item_quad
    <<105, 116, 101, 109, 95, 105, 110, 118, 117, 108, 110, 101, 114, 97, 98, 105, 108, 105, 116, 121>>, \* item_invulnerability
    <<105, 116, 101, 109, 95, 97, 100, 114, 101, 110, 97, 108, 105, 110, 101>>, \* item_adrenaline
    <<105, 116, 101, 109, 95, 98, 97, 110, 100, 111, 108, 105, 101, 114>>,      \* item_bandolier
    <<105, 116, 101, 109, 95, 112, 97, 99, 107>>,                               \* item_pack
    <<105, 116, 101, 109, 95, 112, 111, 119, 101, 114, 95, 115, 99, 114, 101, 101, 110>>, \* item_power_screen
    <<105, 116, 101, 109, 95, 112, 111, 119, 101, 114, 95, 115, 104, 105, 101, 108, 100>> } \* item_power_shield

S_weapon_ == <<119, 101, 97, 112, 111, 110, 95>>
S_item_armor_ == <<105, 116, 101, 109, 95, 97, 114, 109, 111, 114, 95>>
S_info_player_ == <<105, 110, 102, 111, 95, 112, 108, 97, 121, 101, 114, 95>>
S_info_player_deathmatch == S_info_player_ \o <<100, 101, 97, 116, 104, 109, 97, 116, 99, 104>>
S_info_player_start == S_info_player_ \o <<115, 116, 97, 114, 116>>
S_info_player_coop == S_info_player_ \o <<99, 111, 111, 112>>
S_info_player_intermission == S_info_player_ \o <<105, 110, 116, 101, 114, 109, 105, 115, 115, 105, 111, 110>>

classifyClassname(cls, entityStats) ==
  IF StartsWith(cls, S_weapon_)
  THEN [entityStats EXCEPT !.weapons = inc(@, cls)]
  ELSE IF StartsWith(cls, S_item_armor_)
  THEN [entityStats EXCEPT !.armors = inc(@, cls)]
  ELSE IF StartsWith(cls, S_info_player_)
  THEN IF cls = S_info_player_deathmatch
       THEN [entityStats EXCEPT !.spawnPoints.deathmatch = @ + 1]
       ELSE IF cls = S_info_player_start
       THEN [entityStats EXCEPT !.spawnPoints.start = @ + 1]
       ELSE IF cls = S_info_player_coop
       THEN [entityStats EXCEPT !.spawnPoints.coop = @ + 1]
       ELSE IF cls = S_info_player_intermission
       THEN [entityStats EXCEPT !.spawnPoints.intermission = @ + 1]
       ELSE entityStats
  ELSE IF cls \in interestingItems
  THEN [entityStats EXCEPT !.items = inc(@, cls)]
  ELSE entityStats

(***************************************************************************)
(* The entity tokenizer: the global pattern of extractFromEntities (a      *)
(* quoted non-empty key, blanks, a quoted value), applied with exec until  *)
(* it finds no more match.                                                 *)
(***************************************************************************)
RECURSIVE NextQuote(_, _)
\* The first position at or after p that holds a double quote, 0 if none.
NextQuote(txt, p) ==
  IF p > Len(txt) THEN 0
  ELSE IF txt[p] = 34 THEN p
  ELSE NextQuote(txt, p + 1)

RECURSIVE SkipSpaces(_, _)
SkipSpaces(txt, p) ==
  IF p <= Len(txt) /\ IsSpace(txt[p]) THEN SkipSpaces(txt, p + 1) ELSE p

\* Mutant of MatchAt: the key group is [^"]*, so that an empty key matches.
Mut_MatchAt(txt, p) ==
  IF p > Len(txt) \/ txt[p] # 34 THEN Null
  ELSE LET q1 == NextQuote(txt, p + 1)
       IN  IF q1 = 0 THEN Null
           ELSE LET r == SkipSpaces(txt, q1 + 1)
                IN  IF r > Len(txt) \/ txt[r] # 34 THEN Null
                    ELSE LET q2 == NextQuote(txt, r + 1)
                         IN  IF q2 = 0 THEN Null
                             ELSE Some([key |-> SubSeq(txt, p + 1, q1 - 1),
                                        val |-> SubSeq(txt, r + 1, q2 - 1),
                                        last |-> q2])

\* The match of the pattern that starts at position p, or Null.  Every piece
\* of the pattern has one way to match, so there is no backtracking.
MatchAt(txt, p) ==
  IF p > Len(txt) \/ txt[p] # 34 THEN Null
  ELSE LET q1 == NextQuote(txt, p + 1)
       IN  IF q1 = 0 \/ q1 = p + 1 THEN Null
           ELSE LET r == SkipSpaces(txt, q1 + 1)
                IN  IF r > Len(txt) \/ txt[r] # 34 THEN Null
                    ELSE LET q2 == NextQuote(txt, r + 1)
                         IN  IF q2 = 0 THEN Null
                             ELSE Some([key |-> SubSeq(txt, p + 1, q1 - 1),
                                        val |-> SubSeq(txt, r + 1, q2 - 1),
                                        last |-> q2])

RECURSIVE ScanPairs(_, _, _)
\* while ((m = re.exec(txt)) !== null) pairs.push([m[1].toLowerCase(), m[2]])
ScanPairs(txt, p, pairs) ==
  IF p > Len(txt) THEN pairs
  ELSE LET m == MatchAt(txt, p)
       IN  IF m = Null THEN ScanPairs(txt, p + 1, pairs)
           ELSE ScanPairs(txt, m[1].last + 1,
                          Append(pairs, <<ToLowerCase(m[1].key), m[1].val>>))

Tokenize(txt) == ScanPairs(txt, 1, <<>>)

(***************************************************************************)
(* The entity classifier: the body of the loop over the pairs.  out is the *)
(* accumulator {skies, sounds, models, others, entityStats, worldInfo}.    *)
(***************************************************************************)
S_message == <<109, 101, 115, 115, 97, 103, 101>>
S_map == <<109, 97, 112>>
S_mapname == <<109, 97, 112, 110, 97, 109, 101>>
S_mapversion == <<109, 97, 112, 118, 101, 114, 115, 105, 111, 110>>
S_version == <<118, 101, 114, 115, 105, 111, 110>>
S_classname == <<99, 108, 97, 115, 115, 110, 97, 109, 101>>
S_sky == <<115, 107, 121>>
S_sound == <<115, 111, 117, 110, 100>>
S_noise == <<110, 111, 105, 115, 101>>
S_snd == <<115, 110, 100>>
S_model == <<109, 111, 100, 101, 108>>
S_music == <<109, 117, 115, 105, 99>>
S_cdtrack == <<99, 100, 116, 114, 97, 99, 107>>
S_wav == <<119, 97, 118>>
S_wad == <<119, 97, 100>>

\* Mutant of IsSoundValue: the extension test lacks the i flag.
Mut_IsSoundValue(vv) ==
  \/ StartsWith(ToLowerCase(vv), <<115, 111, 117, 110, 100, 47>>)
  \/ EndsWith(vv, <<46, 119, 97, 118>>)
  \/ EndsWith(vv, <<46, 111, 103, 103>>)
  \/ EndsWith(vv, <<46, 109, 112, 51>>)

\* /^sound\//i.test(vv) || /\.(wav|ogg|mp3)$/i.test(vv)
IsSoundValue(vv) ==
  LET l == ToLowerCase(vv)
  IN  \/ StartsWith(l, <<115, 111, 117, 110, 100, 47>>)      \* sound/
      \/ EndsWith(l, <<46, 119, 97, 118>>)                      \* .wav
      \/ EndsWith(l, <<46, 111, 103, 103>>)                     \* .ogg
      \/ EndsWith(l, <<46, 109, 112, 51>>)                      \* .mp3

\* /^models\//i.test(vv) || /\.(md2|sp2|iqm|md3)$/i.test(vv)
IsModelValue(vv) ==
  LET l == ToLowerCase(vv)
  IN  \/ StartsWith(l, <<109, 111, 100, 101, 108, 115, 47>>) \* models/
      \/ EndsWith(l, <<46, 109, 100, 50>>)                      \* .md2
      \/ EndsWith(l, <<46, 115, 112, 50>>)                      \* .sp2
      \/ EndsWith(l, <<46, 105, 113, 109>>)                     \* .iqm
      \/ EndsWith(l, <<46, 109, 100, 51>>)                      \* .md3

\* /^path|file|script|shader$/i.test(k): four alternatives, ^ binds to the
\* first and $ to the last only.
IsPathLikeKey(k) ==
  LET l == ToLowerCase(k)
  IN  \/ StartsWith(l, <<112, 97, 116, 104>>)                   \* ^path
      \/ Contains(l, <<102, 105, 108, 101>>)                    \* file
      \/ Contains(l, <<115, 99, 114, 105, 112, 116>>)           \* script
      \/ EndsWith(l, <<115, 104, 97, 100, 101, 114>>)           \* shader$

\* `${k}=${vv}`
KeyEqValue(k, vv) == k \o <<61>> \o vv

\* Mutant of WorldInfoStep: the guards on a name or version already set are
\* missing, so the last occurrence wins.
Mut_WorldInfoStep(k, v, worldInfo) ==
  LET w1 == IF k \in {S_message, S_map, S_mapname}
            THEN [worldInfo EXCEPT !.name = Some(v)] ELSE worldInfo
  IN  IF k \in {S_mapversion, S_version}
      THEN [w1 EXCEPT !.version = Some(v)] ELSE w1

\* The map name and version captured from worldspawn keys.
WorldInfoStep(k, v, worldInfo) ==
  LET w1 == IF k \in {S_message, S_map, S_mapname} /\ ~Truthy(worldInfo.name)
            THEN [worldInfo EXCEPT !.name = Some(v)] ELSE worldInfo
  IN  IF k \in {S_mapversion, S_version} /\ ~Truthy(w1.version)
      THEN [w1 EXCEPT !.version = Some(v)] ELSE w1

\* Mutant of ResourceStep: a last else puts every other pair into others.
Mut_ResourceStep(k, vv, out) ==
  IF k = S_sky
  THEN [out EXCEPT !.skies = SetAdd(@, <<101, 110, 118, 47>> \o vv \o <<42>>)]
  ELSE IF k \in {S_sound, S_noise, S_snd} \/ StartsWith(k, S_sound)
  THEN IF IsSoundValue(vv)
       THEN [out EXCEPT !.sounds = SetAdd(@, vv)]
       ELSE [out EXCEPT !.others = SetAdd(@, KeyEqValue(k, vv))]
  ELSE IF k = S_model
  THEN IF IsModelValue(vv)
       THEN [out EXCEPT !.models = SetAdd(@, vv)]
       ELSE [out EXCEPT !.others = SetAdd(@, KeyEqValue(k, vv))]
  ELSE IF k \in {S_music, S_cdtrack, S_wav}
  THEN [out EXCEPT !.sounds = SetAdd(@, vv)]
  ELSE IF k = S_wad
  THEN [out EXCEPT !.others = SetAdd(@, KeyEqValue(S_wad, vv))]
  ELSE [out EXCEPT !.others = SetAdd(@, KeyEqValue(k, vv))]

\* The chain of resource rules: the first rule whose key test holds decides.
ResourceStep(k, vv, out) ==
  IF k = S_sky
  THEN [out EXCEPT !.skies = SetAdd(@, <<101, 110, 118, 47>> \o vv \o <<42>>)]
  ELSE IF k \in {S_sound, S_noise, S_snd} \/ StartsWith(k, S_sound)
  THEN IF IsSoundValue(vv)
       THEN [out EXCEPT !.sounds = SetAdd(@, vv)]
       ELSE [out EXCEPT !.others = SetAdd(@, KeyEqValue(k, vv))]
  ELSE IF k = S_model
  THEN IF IsModelValue(vv)
       THEN [out EXCEPT !.models = SetAdd(@, vv)]
       ELSE [out EXCEPT !.others = SetAdd(@, KeyEqValue(k, vv))]
  ELSE IF k \in {S_music, S_cdtrack, S_wav}
  THEN [out EXCEPT !.sounds = SetAdd(@, vv)]
  ELSE IF k = S_wad
  THEN [out EXCEPT !.others = SetAdd(@, KeyEqValue(S_wad, vv))]
  ELSE IF IsPathLikeKey(k)
  THEN [out EXCEPT !.others = SetAdd(@, KeyEqValue(k, vv))]
  ELSE out

\* Mutant of ClassifyPair: the guard on an empty value is missing.
Mut_ClassifyPair(pair, out) ==
  LET k == pair[1]
      v == pair[2]
      vv == ReplaceBackslashes(v)
      o1 == [out EXCEPT !.worldInfo = WorldInfoStep(k, v, @)]
      o2 == IF k = S_classname
            THEN [o1 EXCEPT !.entityStats = classifyClassname(ToLowerCase(v), @)]
            ELSE o1
  IN  ResourceStep(k, vv, o2)

\* One iteration of `for (const [k, v] of pairs)`.
ClassifyPair(pair, out) ==
  LET k == pair[1]
      v == pair[2]
  IN  IF v = <<>> THEN out
      ELSE LET vv == ReplaceBackslashes(v)
               o1 == [out EXCEPT !.worldInfo = WorldInfoStep(k, v, @)]
               o2 == IF k = S_classname
                     THEN [o1 EXCEPT !.entityStats =
                                       classifyClassname(ToLowerCase(v), @)]
                     ELSE o1
           IN  ResourceStep(k, vv, o2)

RECURSIVE ClassifyAll(_, _, _)
ClassifyAll(pairs, n, out) ==
  IF n > Len(pairs) THEN out
  ELSE ClassifyAll(pairs, n + 1, ClassifyPair(pairs[n], out))

\* extractFromEntities(txt, out)
extractFromEntities(txt, out) == ClassifyAll(Tokenize(txt), 1, out)

EmptyOut ==
  [skies |-> <<>>, sounds |-> <<>>, models |-> <<>>, others |-> <<>>,
   entityStats |-> createEmptyEntityStats,
   worldInfo |-> [name |-> Null, version |-> Null]]

(***************************************************************************)
(* Diagnostics.  A message is a record of its kind and of the values the   *)
(* template puts into it.                                                  *)
(***************************************************************************)
SignatureError(magic) ==
  [kind |-> "signature", expected |-> Q2_MAGIC, actual |-> magic]
LumpTableError == [kind |-> "lumpTableEOF"]
VersionWarning(version) ==
  [kind |-> "version", version |-> version, expected |-> Q2_VERSION]
EntitiesWarning == [kind |-> "entities"]
TexinfoWarning == [kind |-> "texinfo"]

(***************************************************************************)
(* analyzeBspBuffer, one operator per step.  st is the record of the       *)
(* call's local variables and pc the place the call has reached:           *)
(*   start -> lumps -> entities -> pairs -> texinfo -> records -> return   *)
(*   -> done, or thrown.                                                   *)
(***************************************************************************)
StartState ==
  [pc |-> "start", errors |-> <<>>, warnings |-> <<>>, lumps |-> <<>>,
   off |-> 0, i |-> 0, out |-> EmptyOut, textures |-> <<>>,
   pairs |-> <<>>, pidx |-> 0, count |-> 0, ti |-> 0, result |-> Null]

Throw(st) == [st EXCEPT !.pc = "thrown"]

\* buf.length < 8
HeaderTooSmall(b) == Len(b) < HEADER_SIZE

\* The header: magic, version and their diagnostics.
ReadHeaderOp(b, st) ==
  IF ~CanReadInt32(b, 4) THEN Throw(st)
  ELSE LET magic == BufToString(b, 0, 4)
           version == ReadInt32LE(b, 4)
       IN  [st EXCEPT
              !.errors = IF magic # Q2_MAGIC
                         THEN Append(@, SignatureError(magic)) ELSE @,
              !.warnings = IF version # Q2_VERSION
                           THEN Append(@, VersionWarning(version)) ELSE @,
              !.off = HEADER_SIZE,
              !.i = 0,
              !.pc = "lumps"]

\* Mutant of LumpTableEnds: the loop asks for 4 more bytes, not for 8.
Mut_LumpTableEnds(b, off) == off + 4 > Len(b)

\* off + 8 > buf.length
LumpTableEnds(b, off) == off + LUMP_ENTRY_SIZE > Len(b)

\* Mutant of LumpIterOp: the truncation diagnostic goes to warnings.
Mut_LumpIterOp(b, st) ==
  IF st.off + LUMP_ENTRY_SIZE > Len(b)
  THEN [st EXCEPT !.warnings = Append(@, LumpTableError), !.pc = "entities"]
  ELSE IF ~CanReadInt32(b, st.off) \/ ~CanReadInt32(b, st.off + 4)
  THEN Throw(st)
  ELSE [st EXCEPT
          !.lumps = Append(@, [offset |-> ReadInt32LE(b, st.off),
                               length |-> ReadInt32LE(b, st.off + 4)]),
          !.off = @ + LUMP_ENTRY_SIZE,
          !.i = @ + 1]

\* One iteration of the lump table loop.
LumpIterOp(b, st) ==
  IF LumpTableEnds(b, st.off)
  THEN [st EXCEPT !.errors = Append(@, LumpTableError), !.pc = "entities"]
  ELSE IF ~CanReadInt32(b, st.off) \/ ~CanReadInt32(b, st.off + 4)
  THEN Throw(st)
  ELSE [st EXCEPT
          !.lumps = Append(@, [offset |-> ReadInt32LE(b, st.off),
                               length |-> ReadInt32LE(b, st.off + 4)]),
          !.off = @ + LUMP_ENTRY_SIZE,
          !.i = @ + 1]

\* lumps[n]: undefined (Null) past the entries read.
LumpAt(lumps, n) == IF n < Len(lumps) THEN Some(lumps[n + 1]) ELSE Null

\* lump && lump.length > 0 && lump.offset + lump.length <= buf.length
\* JavaScript adds the two 32-bit values exactly; the sum is compared here as
\* offset <= buf.length - length, which is the same and stays in 32 bits.
LumpUsable(b, lump) ==
  /\ lump # Null
  /\ lump[1].length > 0
  /\ lump[1].offset <= Len(b) - lump[1].length

\* Mutant of EntitiesOp: the warning is put in front of the list (unshift).
Mut_EntitiesOp(b, st) ==
  LET ent == LumpAt(st.lumps, LUMP_ENTITIES)
  IN  IF LumpUsable(b, ent)
      THEN [st EXCEPT
              !.pairs = Tokenize(BufToString(b, ent[1].offset,
                                             ent[1].offset + ent[1].length)),
              !.pidx = 0,
              !.pc = "pairs"]
      ELSE [st EXCEPT !.warnings = <<EntitiesWarning>> \o @,
                      !.pc = "texinfo"]

\* The ENTITIES consumer up to the tokenizer of extractFromEntities.
EntitiesOp(b, st) ==
  LET ent == LumpAt(st.lumps, LUMP_ENTITIES)
  IN  IF LumpUsable(b, ent)
      THEN [st EXCEPT
              !.pairs = Tokenize(BufToString(b, ent[1].offset,
                                             ent[1].offset + ent[1].length)),
              !.pidx = 0,
              !.pc = "pairs"]
      ELSE [st EXCEPT !.warnings = Append(@, EntitiesWarning),
                      !.pc = "texinfo"]

\* One iteration of the classification loop of extractFromEntities.
PairIterOp(st) ==
  [st EXCEPT !.out = ClassifyPair(st.pairs[st.pidx + 1], @), !.pidx = @ + 1]

PairsDoneOp(st) == [st EXCEPT !.pc = "texinfo"]

\* The TEXINFO consumer up to its loop.
TexinfoOp(b, st) ==
  LET tix == LumpAt(st.lumps, LUMP_TEXINFO)
  IN  IF LumpUsable(b, tix)
      THEN [st EXCEPT !.count = tix[1].length \div DTEXINFO_SIZE,
                      !.ti = 0,
                      !.pc = "records"]
      ELSE [st EXCEPT !.warnings = Append(@, TexinfoWarning),
                      !.pc = "return"]

\* Mutant of RecordName: the name is read where the vecs end, at +32.
Mut_RecordName(b, offset, n) ==
  ReadCString(b, offset + n * DTEXINFO_SIZE + 32, NAME_LEN)

\* readCString(buf, base + 32 + 4 + 4, 32) of record n.
RecordName(b, offset, n) ==
  ReadCString(b, offset + n * DTEXINFO_SIZE + NAME_OFFSET, NAME_LEN)

\* One iteration of the TEXINFO loop.
RecordIterOp(b, st) ==
  LET name == RecordName(b, st.lumps[LUMP_TEXINFO + 1].offset, st.ti)
  IN  [st EXCEPT
         !.textures = IF name # <<>> THEN SetAdd(@, TexturePath(name)) ELSE @,
         !.ti = @ + 1]

RecordsDoneOp(st) == [st EXCEPT !.pc = "return"]

\* worldInfo.name || null
OrNull(x) == IF Truthy(x) THEN x ELSE Null

\* The returned object.
ReturnOp(st) ==
  [st EXCEPT
     !.result = Some([errors |-> st.errors,
                      warnings |-> st.warnings,
                      mapName |-> OrNull(st.out.worldInfo.name),
                      mapVersion |-> OrNull(st.out.worldInfo.version),
                      textures |-> SortedArray(st.textures),
                      skies |-> SortedArray(st.out.skies),
                      sounds |-> SortedArray(st.out.sounds),
                      models |-> SortedArray(st.out.models),
                      others |-> SortedArray(st.out.others),
                      entityStats |-> st.out.entityStats]),
     !.pc = "done"]

\* The step the call takes next from st.
StepOp(b, st) ==
  CASE st.pc = "start" ->
         IF HeaderTooSmall(b) THEN Throw(st) ELSE ReadHeaderOp(b, st)
    [] st.pc = "lumps" ->
         IF st.i < LUMP_COUNT THEN LumpIterOp(b, st)
         ELSE [st EXCEPT !.pc = "entities"]
    [] st.pc = "entities" -> EntitiesOp(b, st)
    [] st.pc = "pairs" ->
         IF st.pidx < Len(st.pairs) THEN PairIterOp(st) ELSE PairsDoneOp(st)
    [] st.pc = "texinfo" -> TexinfoOp(b, st)
    [] st.pc = "records" ->
         IF st.ti < st.count THEN RecordIterOp(b, st) ELSE RecordsDoneOp(st)
    [] st.pc = "return" -> ReturnOp(st)
    [] OTHER -> st

RECURSIVE RunFrom(_, _)
RunFrom(b, st) ==
  IF st.pc \in {"done", "thrown"} THEN st ELSE RunFrom(b, StepOp(b, st))

\* analyzeBspBuffer(buf) as a function of its buffer: the final state of the
\* call, whose pc is "thrown" or whose result is the returned object.
analyzeBspBuffer(b) == RunFrom(b, StartState)

(***************************************************************************)
(* The buffers the call is run on.  A file is laid out as the writer of a  *)
(* map lays it out: header, lump table, ENTITIES text, TEXINFO records.    *)
(***************************************************************************)
MaxPairs == 3
MaxRecs == 2

\* The four bytes readInt32LE reads back as n.
Int32Bytes(n) ==
  LET m == IF n >= 0 THEN n ELSE -(n + 1)
      raw == <<m % 256, (m \div 256) % 256, (m \div 65536) % 256,
               (m \div 16777216) % 256>>
  IN  IF n >= 0 THEN raw ELSE [k \in 1..4 |-> 255 - raw[k]]

RECURSIVE Flatten(_)
Flatten(chunks) ==
  IF chunks = <<>> THEN <<>> ELSE Head(chunks) \o Flatten(Tail(chunks))

TableEnd == HEADER_SIZE + LUMP_COUNT * LUMP_ENTRY_SIZE

\* A file whose directory holds the entries ent and tex at the ENTITIES and
\* TEXINFO indices and empty entries elsewhere.
MakeFile(magic, version, ent, tex, payload) ==
  magic \o Int32Bytes(version)
    \o Flatten([n \in 1..LUMP_COUNT |->
                  IF n = LUMP_ENTITIES + 1
                  THEN Int32Bytes(ent[1]) \o Int32Bytes(ent[2])
                  ELSE IF n = LUMP_TEXINFO + 1
                  THEN Int32Bytes(tex[1]) \o Int32Bytes(tex[2])
                  ELSE Int32Bytes(0) \o Int32Bytes(0)])
    \o payload

\* A file whose directory describes its ENTITIES text and TEXINFO bytes.
WellFormed(magic, version, text, tex) ==
  MakeFile(magic, version, <<TableEnd, Len(text)>>,
           <<TableEnd + Len(text), Len(tex)>>, text \o tex)

\* { <pairs, one per line> } and the terminating NUL.
EntityText(snips) ==
  <<123, 10>> \o Flatten([n \in 1..Len(snips) |-> snips[n] \o <<10>>])
              \o <<125, 10, 0>>

\* A dtexinfo_t: vecs, flags and value (40 bytes), the name padded with NUL
\* to 32 bytes, nexttexinfo (4 bytes).
TexRecord(name) ==
  [k \in 1..NAME_OFFSET |-> 66]
    \o name \o [k \in 1..(NAME_LEN - Len(name)) |-> 0]
    \o <<65, 0, 0, 0>>

TexLump(names, extra) ==
  Flatten([n \in 1..Len(names) |-> TexRecord(names[n])])
    \o [k \in 1..extra |-> 66]

SeqsUpTo(S, n) == UNION {[1..m -> S] : m \in 0..n}

\* Entity text: classname pairs.
ClassnameSnippets ==
  { <<34, 99, 108, 97, 115, 115, 110, 97, 109, 101, 34, 32, 34, 119, 101, 97, 112, 111, 110, 95, 115, 104, 111, 116, 103, 117, 110, 34>>,   \* "classname" "weapon_shotgun"
    <<34, 99, 108, 97, 115, 115, 110, 97, 109, 101, 34, 32, 34, 105, 110, 102, 111, 95, 112, 108, 97, 121, 101, 114, 95, 100, 101, 97, 116, 104, 109, 97, 116, 99, 104, 34>>,   \* "classname" "info_player_deathmatch"
    <<34, 99, 108, 97, 115, 115, 110, 97, 109, 101, 34, 32, 34, 105, 110, 102, 111, 95, 112, 108, 97, 121, 101, 114, 95, 115, 116, 97, 114, 116, 34>>,   \* "classname" "info_player_start"
    <<34, 99, 108, 97, 115, 115, 110, 97, 109, 101, 34, 32, 34, 105, 116, 101, 109, 95, 97, 114, 109, 111, 114, 95, 98, 111, 100, 121, 34>>,   \* "classname" "item_armor_body"
    <<34, 99, 108, 97, 115, 115, 110, 97, 109, 101, 34, 32, 34, 105, 116, 101, 109, 95, 104, 101, 97, 108, 116, 104, 34>>,   \* "classname" "item_health"
    <<34, 99, 108, 97, 115, 115, 110, 97, 109, 101, 34, 32, 34, 105, 110, 102, 111, 95, 112, 108, 97, 121, 101, 114, 95, 116, 101, 97, 109, 34>>,   \* "classname" "info_player_team"
    <<34, 67, 76, 65, 83, 83, 78, 65, 77, 69, 34, 32, 34, 87, 101, 97, 112, 111, 110, 95, 83, 104, 111, 116, 103, 117, 110, 34>>,   \* "CLASSNAME" "Weapon_Shotgun"
    <<34, 99, 108, 97, 115, 115, 110, 97, 109, 101, 34, 32, 34, 105, 110, 102, 111, 95, 112, 108, 97, 121, 101, 114, 95, 99, 111, 111, 112, 34>>,   \* "classname" "info_player_coop"
    <<34, 99, 108, 97, 115, 115, 110, 97, 109, 101, 34, 32, 34, 105, 116, 101, 109, 95, 97, 114, 109, 111, 114, 95, 115, 104, 97, 114, 100, 34>> }   \* "classname" "item_armor_shard"

\* Entity text: worldspawn pairs.
WorldSnippets ==
  { <<34, 109, 101, 115, 115, 97, 103, 101, 34, 32, 34, 70, 114, 97, 103, 32, 80, 105, 116, 34>>,   \* "message" "Frag Pit"
    <<34, 109, 101, 115, 115, 97, 103, 101, 34, 32, 34, 79, 116, 104, 101, 114, 32, 78, 97, 109, 101, 34>>,   \* "message" "Other Name"
    <<34, 109, 97, 112, 110, 97, 109, 101, 34, 32, 34, 113, 50, 92, 100, 109, 49, 34>>,   \* "mapname" "q2\dm1"
    <<34, 118, 101, 114, 115, 105, 111, 110, 34, 32, 34, 50, 34>>,   \* "version" "2"
    <<34, 109, 97, 112, 118, 101, 114, 115, 105, 111, 110, 34, 32, 34, 51, 34>>,   \* "mapversion" "3"
    <<34, 109, 101, 115, 115, 97, 103, 101, 34, 32, 34, 34>>,   \* "message" ""
    <<34, 99, 108, 97, 115, 115, 110, 97, 109, 101, 34, 32, 34, 119, 111, 114, 108, 100, 115, 112, 97, 119, 110, 34>> }   \* "classname" "worldspawn"

\* Entity text: resource pairs.
ResourceSnippets ==
  { <<34, 115, 107, 121, 34, 32, 34, 117, 110, 105, 116, 49, 95, 34>>,   \* "sky" "unit1_"
    <<34, 110, 111, 105, 115, 101, 34, 32, 34, 119, 111, 114, 108, 100, 47, 119, 105, 110, 100, 46, 119, 97, 118, 34>>,   \* "noise" "world/wind.wav"
    <<34, 110, 111, 105, 115, 101, 34, 32, 34, 97, 46, 119, 97, 118, 34>>,   \* "noise" "a.wav"
    <<34, 109, 111, 100, 101, 108, 34, 32, 34, 109, 111, 100, 101, 108, 115, 47, 98, 46, 109, 100, 50, 34>>,   \* "model" "models/b.md2"
    <<34, 109, 111, 100, 101, 108, 34, 32, 34, 109, 111, 100, 101, 108, 115, 92, 97, 46, 109, 100, 50, 34>>,   \* "model" "models\a.md2"
    <<34, 115, 111, 117, 110, 100, 34, 32, 34, 97, 109, 98, 105, 101, 110, 116, 34>>,   \* "sound" "ambient"
    <<34, 111, 114, 105, 103, 105, 110, 34, 32, 34, 48, 32, 48, 32, 48, 34>> }   \* "origin" "0 0 0"

\* Names stored in TEXINFO records.
TextureNames ==
  { <<101, 49, 117, 49, 47, 119, 97, 108, 108, 48, 49>>,   \* e1u1/wall01
    <<116, 101, 120, 116, 117, 114, 101, 115, 47, 101, 49, 117, 49, 47, 119, 97, 108, 108, 48, 49>>,   \* textures/e1u1/wall01
    <<69, 49, 85, 49, 92, 87, 97, 108, 108>>,   \* E1U1\Wall
    <<>>,   \* 
    <<32, 32>>,   \*   
    <<97, 98, 99, 100, 101, 102, 103, 104, 105, 106, 107, 108, 109, 110, 111, 112, 113, 114, 115, 116, 117, 118, 119, 120, 121, 122, 48, 49, 50, 51, 52, 53>>,   \* abcdefghijklmnopqrstuvwxyz012345
    <<116, 101, 120, 116, 117, 114, 101, 115, 47, 116, 101, 120, 116, 117, 114, 101, 115, 47, 120>>,   \* textures/textures/x
    <<97, 46, 116, 103, 97>>,   \* a.tga
    <<120, 128, 121>> }   \* x, the byte 0x80, y

DefaultText ==
  EntityText(<< <<34, 109, 101, 115, 115, 97, 103, 101, 34, 32, 34, 70, 114, 97, 103, 32, 80, 105, 116, 34>>,            \* "message" "Frag Pit"
                <<34, 110, 111, 105, 115, 101, 34, 32, 34, 97, 46, 119, 97, 118, 34>> >>)                          \* "noise" "a.wav"
DefaultTex == TexRecord(<<101, 49, 117, 49, 47, 119, 97, 108, 108, 48, 49>>)  \* e1u1/wall01

Magics == { Q2_MAGIC, <<88, 88, 88, 88>> }                      \* IBSP, XXXX
Versions == { Q2_VERSION, 46, -1 }

\* Files cut short at every interesting length, and whole.
HeaderBuffers ==
  { LET whole == WellFormed(m, v, DefaultText, DefaultTex)
    IN  SubSeq(whole, 1, Min(n, Len(whole))) :
      m \in Magics, v \in Versions,
      n \in {0, 4, 7, 8, 12, 15, 16, 52, 56, 159, 160, 200, 1000} }

\* Files cut down to a header, the ENTITIES entry and the text it describes:
\* the directory runs into the text and ends with the file.
CompactBuffers ==
  { m \o Int32Bytes(v)
      \o Int32Bytes(HEADER_SIZE + LUMP_ENTRY_SIZE) \o Int32Bytes(Len(DefaultText))
      \o DefaultText :
      m \in Magics, v \in Versions }

\* Directory entries for a lump that lies at (o, l): as they should be, empty,
\* of negative length, past the end, far past the end, before the start.
EntryVariants(o, l) ==
  { <<o, l>>, <<o, 0>>, <<o, -l>>, <<o + 1, l + 76>>, <<o, 1073741824>>,
    <<1073741824, l>>, <<-40, 76>>, <<-2147483647 - 1, 76>> }

LumpBuffers ==
  { MakeFile(m, Q2_VERSION, e, t, DefaultText \o DefaultTex) :
      m \in Magics,
      e \in EntryVariants(TableEnd, Len(DefaultText)),
      t \in EntryVariants(TableEnd + Len(DefaultText), Len(DefaultTex)) }

EntityBuffers ==
  { WellFormed(Q2_MAGIC, Q2_VERSION, EntityText(s), DefaultTex) :
      s \in SeqsUpTo(ClassnameSnippets, MaxPairs)
              \cup SeqsUpTo(WorldSnippets, MaxPairs)
              \cup SeqsUpTo(ResourceSnippets, MaxPairs) }

TexinfoBuffers ==
  { WellFormed(Q2_MAGIC, Q2_VERSION, DefaultText, TexLump(names, extra)) :
      names \in SeqsUpTo(TextureNames, MaxRecs), extra \in {0, 10} }

\* "s"
Quoted(s) == <<34>> \o s \o <<34>>

\* "k" "v"
PairSnippet(k, v) == Quoted(k) \o <<32>> \o Quoted(v)

\* Keys for every rule of the classifier, and keys that miss one narrowly.
RuleKeys ==
  { <<115, 107, 121>>,   \* sky
    <<115, 111, 117, 110, 100>>,   \* sound
    <<110, 111, 105, 115, 101>>,   \* noise
    <<115, 110, 100>>,   \* snd
    <<115, 111, 117, 110, 100, 116, 114, 97, 99, 107>>,   \* soundtrack
    <<83, 79, 85, 78, 68>>,   \* SOUND
    <<109, 111, 100, 101, 108>>,   \* model
    <<109, 111, 100, 101, 108, 115>>,   \* models
    <<109, 117, 115, 105, 99>>,   \* music
    <<99, 100, 116, 114, 97, 99, 107>>,   \* cdtrack
    <<119, 97, 118>>,   \* wav
    <<119, 97, 100>>,   \* wad
    <<112, 97, 116, 104, 110, 97, 109, 101>>,   \* pathname
    <<109, 121, 112, 97, 116, 104>>,   \* mypath
    <<112, 114, 111, 102, 105, 108, 101>>,   \* profile
    <<115, 99, 114, 105, 112, 116, 110, 97, 109, 101>>,   \* scriptname
    <<109, 121, 115, 104, 97, 100, 101, 114>>,   \* myshader
    <<115, 104, 97, 100, 101, 114, 115>>,   \* shaders
    <<99, 108, 97, 115, 115, 110, 97, 109, 101>>,   \* classname
    <<109, 101, 115, 115, 97, 103, 101>>,   \* message
    <<109, 97, 112>>,   \* map
    <<109, 97, 112, 110, 97, 109, 101>>,   \* mapname
    <<109, 97, 112, 118, 101, 114, 115, 105, 111, 110>>,   \* mapversion
    <<118, 101, 114, 115, 105, 111, 110>>,   \* version
    <<111, 114, 105, 103, 105, 110>> }   \* origin

RuleValues ==
  { <<>>,   \* (empty)
    <<117, 110, 105, 116, 49, 95>>,   \* unit1_
    <<97, 46, 87, 65, 86>>,   \* a.WAV
    <<83, 111, 117, 110, 100, 92, 120>>,   \* Sound\x
    <<109, 111, 100, 101, 108, 115, 47, 98>>,   \* models/b
    <<67, 46, 77, 68, 51>>,   \* C.MD3
    <<120, 46, 109, 112, 51>>,   \* x.mp3
    <<119, 101, 97, 112, 111, 110, 95, 115, 104, 111, 116, 103, 117, 110>>,   \* weapon_shotgun
    <<50>> }   \* 2

\* The pairs before and after the pair under test: none, two before it, four
\* after it.
PairContexts ==
  { << <<>>, <<>> >>,
    << << <<34, 109, 101, 115, 115, 97, 103, 101, 34, 32, 34, 70, 114, 97, 103, 32, 80, 105, 116, 34>>,   \* "message" "Frag Pit"
          <<34, 110, 111, 105, 115, 101, 34, 32, 34, 97, 46, 119, 97, 118, 34>> >>,   \* "noise" "a.wav"
       <<>> >>,
    << <<>>,
       << <<34, 109, 101, 115, 115, 97, 103, 101, 34, 32, 34, 79, 116, 104, 101, 114, 32, 78, 97, 109, 101, 34>>,   \* "message" "Other Name"
          <<34, 118, 101, 114, 115, 105, 111, 110, 34, 32, 34, 50, 34>>,   \* "version" "2"
          <<34, 115, 107, 121, 34, 32, 34, 117, 110, 105, 116, 49, 95, 34>>,   \* "sky" "unit1_"
          <<34, 99, 108, 97, 115, 115, 110, 97, 109, 101, 34, 32, 34, 119, 101, 97, 112, 111, 110, 95, 115, 104, 111, 116, 103, 117, 110, 34>> >> >> }   \* "classname" "weapon_shotgun"

\* Every key with every value, alone and among other pairs.
PairBuffers ==
  { WellFormed(Q2_MAGIC, Q2_VERSION,
               EntityText(c[1] \o <<PairSnippet(k, v)>> \o c[2]), DefaultTex) :
      c \in PairContexts, k \in RuleKeys, v \in RuleValues }

MaxFrags == 4

\* Pieces of entity text: two quoted strings, the empty quoted string, a
\* blank, a lone quote, a brace.
TokenFragments ==
  { <<34, 97, 34>>,        \* "a"
    <<34, 66, 34>>,        \* "B"
    <<34, 34>>,            \* ""
    <<32>>,                \* a space
    <<34>>,                \* a lone quote
    <<123>> }              \* {

\* Texts made of up to MaxFrags pieces between braces, NUL terminated.
TokenBuffers ==
  { WellFormed(Q2_MAGIC, Q2_VERSION,
               <<123>> \o Flatten(f) \o <<125, 0>>, DefaultTex) :
      f \in SeqsUpTo(TokenFragments, MaxFrags) }

Buffers ==
  HeaderBuffers \cup CompactBuffers \cup LumpBuffers \cup EntityBuffers
    \cup TexinfoBuffers \cup PairBuffers \cup TokenBuffers

(***************************************************************************)
(* The state machine: one call of analyzeBspBuffer on a buffer.            *)
(***************************************************************************)
VARIABLES buf, pc, errors, warnings, lumps, off, i, out, textures, pairs,
          pidx, count, ti, result,
          history,
          files, hpc, fidx, analysis, results, response, pending,
          db, clock, saves

\* The variables of the call under way.
callVars == <<buf, pc, errors, warnings, lumps, off, i, out, textures, pairs,
              pidx, count, ti, result>>

\* The requests under way in the /analyze handler, and the maps collection.
serverVars == <<files, hpc, fidx, analysis, results, response, pending,
                db, clock, saves>>

vars == <<callVars, history, serverVars>>

\* The call's local variables as a record.
State ==
  [pc |-> pc, errors |-> errors, warnings |-> warnings, lumps |-> lumps,
   off |-> off, i |-> i, out |-> out, textures |-> textures, pairs |-> pairs,
   pidx |-> pidx, count |-> count, ti |-> ti, result |-> result]

\* The call's local variables become those of st.
LocalsBecome(st) ==
  /\ pc' = st.pc
  /\ errors' = st.errors
  /\ warnings' = st.warnings
  /\ lumps' = st.lumps
  /\ off' = st.off
  /\ i' = st.i
  /\ out' = st.out
  /\ textures' = st.textures
  /\ pairs' = st.pairs
  /\ pidx' = st.pidx
  /\ count' = st.count
  /\ ti' = st.ti
  /\ result' = st.result

\* A step of the call: the buffer is never written.
Becomes(st) == LocalsBecome(st) /\ UNCHANGED <<buf, history, serverVars>>

Reqs == 1..2

\* No handler has started and the maps collection is empty.
HandlersIdle ==
  /\ hpc = [r \in Reqs |-> "idle"]
  /\ fidx = [r \in Reqs |-> 0]
  /\ analysis = [r \in Reqs |-> Null]
  /\ results = [r \in Reqs |-> <<>>]
  /\ response = [r \in Reqs |-> Null]
  /\ pending = [r \in Reqs |-> Null]
  /\ db = <<>>
  /\ clock = 0
  /\ saves = <<>>

\* No request has arrived.
NoRequests == files = [r \in Reqs |-> <<>>] /\ HandlersIdle

\* The call on buffer b begins.
CallOn(b) ==
  /\ buf = b
  /\ pc = StartState.pc
  /\ errors = StartState.errors
  /\ warnings = StartState.warnings
  /\ lumps = StartState.lumps
  /\ off = StartState.off
  /\ i = StartState.i
  /\ out = StartState.out
  /\ textures = StartState.textures
  /\ pairs = StartState.pairs
  /\ pidx = StartState.pidx
  /\ count = StartState.count
  /\ ti = StartState.ti
  /\ result = StartState.result

Init ==
  /\ \E b \in Buffers : CallOn(b)
  /\ history = <<>>
  /\ NoRequests

TooSmall == pc = "start" /\ HeaderTooSmall(buf) /\ Becomes(Throw(State))

ReadHeader ==
  pc = "start" /\ ~HeaderTooSmall(buf) /\ Becomes(ReadHeaderOp(buf, State))

LumpIter == pc = "lumps" /\ i < LUMP_COUNT /\ Becomes(LumpIterOp(buf, State))

LumpsDone ==
  pc = "lumps" /\ ~(i < LUMP_COUNT) /\ Becomes([State EXCEPT !.pc = "entities"])

Entities == pc = "entities" /\ Becomes(EntitiesOp(buf, State))

PairIter == pc = "pairs" /\ pidx < Len(pairs) /\ Becomes(PairIterOp(State))

PairsDone == pc = "pairs" /\ ~(pidx < Len(pairs)) /\ Becomes(PairsDoneOp(State))

Texinfo == pc = "texinfo" /\ Becomes(TexinfoOp(buf, State))

RecordIter == pc = "records" /\ ti < count /\ Becomes(RecordIterOp(buf, State))

RecordsDone == pc = "records" /\ ~(ti < count) /\ Becomes(RecordsDoneOp(State))

Return == pc = "return" /\ Becomes(ReturnOp(State))

Next ==
  \/ TooSmall
  \/ ReadHeader
  \/ LumpIter
  \/ LumpsDone
  \/ Entities
  \/ PairIter
  \/ PairsDone
  \/ Texinfo
  \/ RecordIter
  \/ RecordsDone
  \/ Return

Spec == Init /\ [][Next]_vars

(***************************************************************************)
(* A program that calls analyzeBspBuffer again and again.                  *)
(***************************************************************************)
MaxCalls == 3

\* A buffer that makes the call throw, a whole file, a file with a wrong
\* magic, another version and entities to count, a file cut in the table.
CallBuffers ==
  { <<73, 66, 83>>,
    WellFormed(Q2_MAGIC, Q2_VERSION, DefaultText, DefaultTex),
    WellFormed(<<88, 88, 88, 88>>, 46,
               EntityText(<< PairSnippet(S_classname, S_weapon_ \o <<120>>),
                             PairSnippet(S_sky, <<117>>),
                             PairSnippet(S_version, <<50>>) >>),
               DefaultTex),
    SubSeq(WellFormed(Q2_MAGIC, Q2_VERSION, DefaultText, DefaultTex), 1, 16) }

\* Mutant of CallStart: the accumulators of the entity pass (sets, counters,
\* map name) live outside the function and are not made anew.
Mut_CallStart(st) == [StartState EXCEPT !.out = st.out]

\* The local variables of a call that begins after a call that ended in st:
\* every array, set, counter table and pattern is created by the call.
CallStart(st) == StartState

\* How the call ended: thrown, or the returned object.
Outcome ==
  IF pc = "thrown" THEN [thrown |-> TRUE, value |-> Null]
  ELSE [thrown |-> FALSE, value |-> result]

InitCalls ==
  /\ \E b \in CallBuffers : CallOn(b)
  /\ history = <<>>
  /\ NoRequests

\* The call has ended and the program calls again.
NextCall ==
  /\ pc \in {"done", "thrown"}
  /\ Len(history) < MaxCalls - 1
  /\ history' = Append(history, [buf |-> buf, outcome |-> Outcome])
  /\ buf' \in CallBuffers
  /\ LocalsBecome(CallStart(State))
  /\ UNCHANGED serverVars

NextCalls ==
  \/ TooSmall
  \/ ReadHeader
  \/ LumpIter
  \/ LumpsDone
  \/ Entities
  \/ PairIter
  \/ PairsDone
  \/ Texinfo
  \/ RecordIter
  \/ RecordsDone
  \/ Return
  \/ NextCall

SpecCalls == InitCalls /\ [][NextCalls]_vars

(***************************************************************************)
(* The /analyze handler and saveAnalysisToDb.  Each request runs the        *)
(* handler; a handler gives way to the others where it awaits.  A call of  *)
(* analyzeBspBuffer has no await in it and is one step.                    *)
(***************************************************************************)
MaxFiles == 2

\* fileName ? fileName.replace(/\.bsp$/i, '') : ''
getBaseMapName(fileName) ==
  IF fileName = <<>> THEN <<>>
  ELSE IF EndsWith(ToLowerCase(fileName), <<46, 98, 115, 112>>)     \* .bsp
  THEN SubSeq(fileName, 1, Len(fileName) - 4)
  ELSE fileName

\* mapName = analysis.mapName || baseName || null and
\* mapVersion = analysis.mapVersion || null: the filter of the upsert.
SaveKey(an, fileName) ==
  LET baseName == getBaseMapName(fileName)
  IN  [mapName |-> IF Truthy(an.mapName) THEN an.mapName
                   ELSE IF baseName # <<>> THEN Some(baseName)
                   ELSE Null,
       mapVersion |-> OrNull(an.mapVersion)]

\* The document of $set.
SaveDoc(an, fileName, now) ==
  [fileName |-> IF fileName # <<>> THEN Some(fileName) ELSE Null,
   mapName |-> SaveKey(an, fileName).mapName,
   mapVersion |-> SaveKey(an, fileName).mapVersion,
   textures |-> an.textures,
   skies |-> an.skies,
   sounds |-> an.sounds,
   models |-> an.models,
   others |-> an.others,
   entityStats |-> an.entityStats,
   errors |-> an.errors,
   warnings |-> an.warnings,
   updatedAt |-> now]

\* The filter { mapName, mapVersion }.
Matches(d, key) == d.mapName = key.mapName /\ d.mapVersion = key.mapVersion

MatchIndexes(docs, key) == {k \in 1..Len(docs) : Matches(docs[k], key)}

\* The document updateOne picks: the first that matches.
FirstMatch(docs, key) ==
  CHOOSE k \in MatchIndexes(docs, key) : \A h \in MatchIndexes(docs, key) : k <= h

\* $set on a stored document: the fields of doc replace the stored ones and
\* createdAt stays.
SetFields(stored, doc) == doc @@ stored

\* The inserted document of an upsert: $set and $setOnInsert.
Inserted(doc, now) == doc @@ [createdAt |-> now]

\* The warning pushed when saveAnalysisToDb rejects.
SaveWarning == [kind |-> "save"]

\* { file: f.originalname, ...analysis }
ResultItem(name, an) ==
  [file |-> name,
   errors |-> an.errors,
   warnings |-> an.warnings,
   mapName |-> an.mapName,
   mapVersion |-> an.mapVersion,
   textures |-> an.textures,
   skies |-> an.skies,
   sounds |-> an.sounds,
   models |-> an.models,
   others |-> an.others,
   entityStats |-> an.entityStats]

\* The uploads: a file too small for a header; a whole map with a message;
\* another file of the same map name (a compact file of version 46); a file of
\* a header only, with no map name of its own.
UploadFiles ==
  { [name |-> <<97, 46, 98, 115, 112>>,                           \* a.bsp
     buffer |-> <<73, 66, 83>>],
    [name |-> <<100, 109, 49, 46, 98, 115, 112>>,                 \* dm1.bsp
     buffer |-> WellFormed(Q2_MAGIC, Q2_VERSION, DefaultText, DefaultTex)],
    [name |-> <<99, 111, 112, 121, 46, 66, 83, 80>>,              \* copy.BSP
     buffer |-> Q2_MAGIC \o Int32Bytes(46)
                  \o Int32Bytes(HEADER_SIZE + LUMP_ENTRY_SIZE)
                  \o Int32Bytes(Len(DefaultText)) \o DefaultText],
    [name |-> <<81, 50, 68, 77, 50, 46, 66, 83, 80>>,             \* Q2DM2.BSP
     buffer |-> Q2_MAGIC \o Int32Bytes(Q2_VERSION)] }

\* The first request uploads up to MaxFiles files, the second at most one.
InitServer ==
  /\ CallOn(<<>>)
  /\ history = <<>>
  /\ files \in [Reqs -> SeqsUpTo(UploadFiles, MaxFiles)]
  /\ Len(files[2]) <= 1
  /\ HandlersIdle

\* res.status(...).send(...) or res.json({ results }).
Respond(r, status, error, list) ==
  /\ response' = [response EXCEPT ![r] =
                    Some([status |-> status, error |-> error, results |-> list])]
  /\ hpc' = [hpc EXCEPT ![r] = "responded"]

\* results.push({ file: f.originalname, ...analysis }) and the next iteration.
PushResult(r, an) ==
  /\ results' = [results EXCEPT
                   ![r] = Append(@, ResultItem(files[r][fidx[r] + 1].name, an))]
  /\ fidx' = [fidx EXCEPT ![r] = @ + 1]
  /\ analysis' = [analysis EXCEPT ![r] = Null]
  /\ pending' = [pending EXCEPT ![r] = Null]
  /\ hpc' = [hpc EXCEPT ![r] = "loop"]

\* The request arrives: no file is a 400, otherwise the loop begins.
Arrive(r) ==
  /\ hpc[r] = "idle"
  /\ IF Len(files[r]) = 0
     THEN Respond(r, 400, "noFiles", <<>>)
     ELSE /\ hpc' = [hpc EXCEPT ![r] = "loop"]
          /\ UNCHANGED response
  /\ UNCHANGED <<callVars, history, files, fidx, analysis, results, pending,
                 db, clock, saves>>

\* const analysis = analyzeBspBuffer(f.buffer): a throw leaves the loop for
\* the handler's catch; otherwise saveAnalysisToDb is called and awaits getDb.
AnalyzeFile(r) ==
  /\ hpc[r] = "loop"
  /\ fidx[r] < Len(files[r])
  /\ LET end == analyzeBspBuffer(files[r][fidx[r] + 1].buffer)
     IN  IF end.pc = "thrown"
         THEN /\ Respond(r, 400, "thrown", <<>>)
              /\ UNCHANGED analysis
         ELSE /\ analysis' = [analysis EXCEPT ![r] = end.result]
              /\ hpc' = [hpc EXCEPT ![r] = "getdb"]
              /\ UNCHANGED response
  /\ UNCHANGED <<callVars, history, files, fidx, results, pending, db, clock,
                 saves>>

\* getDb resolves: the filter and the document are built with now = new Date()
\* and updateOne is sent.
GetDb(r) ==
  /\ hpc[r] = "getdb"
  /\ LET name == files[r][fidx[r] + 1].name
         an == analysis[r][1]
     IN  pending' = [pending EXCEPT
                       ![r] = Some([key |-> SaveKey(an, name),
                                    doc |-> SaveDoc(an, name, clock),
                                    now |-> clock])]
  /\ clock' = clock + 1
  /\ hpc' = [hpc EXCEPT ![r] = "upsert"]
  /\ UNCHANGED <<callVars, history, files, fidx, analysis, results, response,
                 db, saves>>

\* saveAnalysisToDb returns { mapName, mapVersion }, which the handler puts
\* into the analysis.
Saved(r) ==
  PushResult(r, [analysis[r][1] EXCEPT
                   !.mapName = pending[r][1].key.mapName,
                   !.mapVersion = pending[r][1].key.mapVersion])

\* The write of an upsert, kept in the order the collection applied them.
Logged(r) == Append(saves, pending[r][1])

\* updateOne finds a document that matches the filter and sets its fields.
UpsertUpdate(r) ==
  /\ hpc[r] = "upsert"
  /\ MatchIndexes(db, pending[r][1].key) # {}
  /\ db' = [db EXCEPT ![FirstMatch(db, pending[r][1].key)] =
                        SetFields(@, pending[r][1].doc)]
  /\ saves' = Logged(r)
  /\ Saved(r)
  /\ UNCHANGED <<callVars, history, files, response, clock>>

\* updateOne finds no document that matches: it will insert.  The collection
\* has no unique index on the filter's fields, so that nothing ties the
\* insert to the search that came before it.
UpsertMiss(r) ==
  /\ hpc[r] = "upsert"
  /\ MatchIndexes(db, pending[r][1].key) = {}
  /\ hpc' = [hpc EXCEPT ![r] = "insert"]
  /\ UNCHANGED <<callVars, history, files, fidx, analysis, results, response,
                 pending, db, clock, saves>>

\* The insert of the upsert.
UpsertInsert(r) ==
  /\ hpc[r] = "insert"
  /\ db' = Append(db, Inserted(pending[r][1].doc, pending[r][1].now))
  /\ saves' = Logged(r)
  /\ Saved(r)
  /\ UNCHANGED <<callVars, history, files, response, clock>>

\* saveAnalysisToDb rejects (getDb throws or fails to connect, updateOne
\* fails): the inner catch pushes a warning and the loop goes on.
SaveRejects(r) ==
  /\ hpc[r] \in {"getdb", "upsert", "insert"}
  /\ PushResult(r, [analysis[r][1] EXCEPT !.warnings = Append(@, SaveWarning)])
  /\ UNCHANGED <<callVars, history, files, response, db, clock, saves>>

\* The loop is over: getSavedMapsList is called and awaited.
LoopEnd(r) ==
  /\ hpc[r] = "loop"
  /\ ~(fidx[r] < Len(files[r]))
  /\ hpc' = [hpc EXCEPT ![r] = "list"]
  /\ UNCHANGED <<callVars, history, files, fidx, analysis, results, response,
                 pending, db, clock, saves>>

\* getSavedMapsList resolves: the results are sent.
ListOk(r) ==
  /\ hpc[r] = "list"
  /\ Respond(r, 200, "none", results[r])
  /\ UNCHANGED <<callVars, history, files, fidx, analysis, results, pending,
                 db, clock, saves>>

\* getSavedMapsList rejects: the handler's catch answers 400.
ListRejects(r) ==
  /\ hpc[r] = "list"
  /\ Respond(r, 400, "list", <<>>)
  /\ UNCHANGED <<callVars, history, files, fidx, analysis, results, pending,
                 db, clock, saves>>

NextServer ==
  \E r \in Reqs :
    \/ Arrive(r)
    \/ AnalyzeFile(r)
    \/ GetDb(r)
    \/ UpsertUpdate(r)
    \/ UpsertMiss(r)
    \/ UpsertInsert(r)
    \/ SaveRejects(r)
    \/ LoopEnd(r)
    \/ ListOk(r)
    \/ ListRejects(r)

SpecServer == InitServer /\ [][NextServer]_vars

(***************************************************************************)
(* Properties.                                                             *)
(***************************************************************************)
Done == pc = "done"
Res == result[1]
Magic == BufToString(buf, 0, 4)
EntEntry == LumpAt(lumps, LUMP_ENTITIES)
TexEntry == LumpAt(lumps, LUMP_TEXINFO)

\* How many elements of the list q are x.
Occurrences(q, x) == Cardinality({k \in 1..Len(q) : q[k] = x})

\* A lump entry that lies inside the buffer: offset >= 0, length >= 0 and
\* offset + length <= buffer.length.
InRange(b, lump) ==
  /\ lump.offset >= 0
  /\ lump.length >= 0
  /\ lump.offset <= Len(b) - lump.length

\* The outputs fed by the ENTITIES lump are empty.
EntityOutputsEmpty ==
  /\ Res.skies = <<>> /\ Res.sounds = <<>> /\ Res.models = <<>>
  /\ Res.others = <<>>
  /\ Res.entityStats = createEmptyEntityStats
  /\ Res.mapName = Null /\ Res.mapVersion = Null

\* C1: the call throws if and only if the buffer is shorter than 8 bytes; on
\* every buffer of 8 bytes or more, whatever its header and lump entries, no
\* step throws and the call runs to its return statement and returns a result.
C1_ThrowsIffTooSmall ==
  /\ pc = "thrown" => Len(buf) < 8
  /\ (Len(buf) < 8 /\ pc # "start") => pc = "thrown"
  /\ (Len(buf) >= 8 /\ pc = "start") =>
       LET end == analyzeBspBuffer(buf)
       IN  end.pc = "done" /\ end.result # Null
  /\ Done => result # Null

\* A call that returned on a buffer with a wrong magic, a lump entry of
\* negative offset and a lump entry of huge length.
C1_Witness ==
  /\ Done /\ result # Null
  /\ Magic # Q2_MAGIC
  /\ EntEntry # Null /\ EntEntry[1].offset < 0
  /\ TexEntry # Null /\ TexEntry[1].length > 1000000

\* C2: a lump entry that violates offset >= 0, length >= 0 or
\* offset + length <= buffer.length is treated as absent by its consumer: the
\* lump's warning is emitted and the lump's outputs hold nothing.
C2_OutOfRangeLumpIsAbsent ==
  Done =>
    /\ (EntEntry # Null /\ ~InRange(buf, EntEntry[1])) =>
         (EntitiesWarning \in Elems(Res.warnings) /\ EntityOutputsEmpty)
    /\ (TexEntry # Null /\ ~InRange(buf, TexEntry[1])) =>
         (TexinfoWarning \in Elems(Res.warnings) /\ Res.textures = <<>>)

\* The buffer with its magic replaced by IBSP.
WithGoodMagic(b) == Q2_MAGIC \o SubSeq(b, 5, Len(b))

\* C3: with a magic other than IBSP the errors list holds exactly one error
\* that names the expected and the actual signature, and the lump table, the
\* ENTITIES and the TEXINFO extraction go on as for the same bytes under the
\* magic IBSP: the other diagnostics and every output are the same.
C3_BadMagicThenAsGoodMagic ==
  (Done /\ Magic # Q2_MAGIC) =>
    LET ref == analyzeBspBuffer(WithGoodMagic(buf)).result[1]
    IN  /\ Res.errors # <<>>
        /\ Head(Res.errors) = [kind |-> "signature",
                               expected |-> <<73, 66, 83, 80>>,
                               actual |-> SubSeq(buf, 1, 4)]
        /\ Cardinality({k \in 1..Len(Res.errors) :
                          Res.errors[k].kind = "signature"}) = 1
        /\ [Res EXCEPT !.errors = Tail(@)] = ref

\* C4: the lump table holds min(19, floor((buffer.length - 8) / 8)) entries,
\* read in order from byte 8, 8 bytes each; a table of fewer than 19 entries
\* adds exactly one truncation error to errors and none to warnings, the
\* entries read are kept for the lump consumers, and a buffer of 160 bytes or
\* more gets no truncation error.
C4_LumpTable ==
  pc \in {"entities", "pairs", "texinfo", "records", "return", "done"} =>
    LET n == Min(19, (Len(buf) - 8) \div 8)
    IN  /\ Len(lumps) = n
        /\ \A k \in 1..n :
             lumps[k] = [offset |-> ReadInt32LE(buf, 8 * k),
                         length |-> ReadInt32LE(buf, 8 * k + 4)]
        /\ Occurrences(errors, LumpTableError) = (IF n < 19 THEN 1 ELSE 0)
        /\ Occurrences(warnings, LumpTableError) = 0
        /\ Len(buf) >= 160 => LumpTableError \notin Elems(errors)
        /\ (Done /\ n >= 1 /\ lumps[1].length > 0 /\ InRange(buf, lumps[1])) =>
             EntitiesWarning \notin Elems(Res.warnings)

\* A call that returned on a file whose lump table is cut short after the
\* ENTITIES entry and that extracted the entity pairs of that entry.
C4_Witness ==
  /\ Done /\ Len(lumps) >= 1 /\ Len(lumps) < 19
  /\ Occurrences(Res.errors, LumpTableError) = 1
  /\ pairs # <<>> /\ Res.mapName # Null

\* C5: a consumed lump that is missing from the directory, of length 0 or out
\* of bounds adds exactly one warning for that lump and leaves the outputs fed
\* by it empty, while the other lump is processed as usual.
C5_FailingLumpWarnsAndIsEmpty ==
  Done =>
    /\ (EntEntry = Null \/ EntEntry[1].length = 0 \/ ~InRange(buf, EntEntry[1])) =>
         /\ Occurrences(Res.warnings, EntitiesWarning) = 1
         /\ EntityOutputsEmpty
         /\ (TexEntry # Null /\ TexEntry[1].length > 0 /\ InRange(buf, TexEntry[1])) =>
              Occurrences(Res.warnings, TexinfoWarning) = 0
    /\ (TexEntry = Null \/ TexEntry[1].length = 0 \/ ~InRange(buf, TexEntry[1])) =>
         /\ Occurrences(Res.warnings, TexinfoWarning) = 1
         /\ Res.textures = <<>>
         /\ (EntEntry # Null /\ EntEntry[1].length > 0 /\ InRange(buf, EntEntry[1])) =>
              Occurrences(Res.warnings, EntitiesWarning) = 0

\* The TEXINFO entry describes a non-empty lump inside the buffer.
TexValid ==
  TexEntry # Null /\ TexEntry[1].length > 0 /\ InRange(buf, TexEntry[1])

\* The bytes of the name field of record k (from 0): the 32 bytes at
\* offset + k*76 + 40, up to the first NUL.
NameBytes(k) ==
  LET start == TexEntry[1].offset + k * 76 + 40
      field == [j \in 1..32 |-> buf[start + j]]
      nuls == {j \in 1..32 : field[j] = 0}
      n == IF nuls = {} THEN 32
           ELSE (CHOOSE j \in nuls : \A h \in nuls : j <= h) - 1
  IN  SubSeq(field, 1, n)

\* The name field of record k, trimmed.
NameField(k) == Trim(NameBytes(k))

NotNul(c) == c # 0

\* The name field of record k read as 7-bit ASCII (the high bit of each byte
\* cleared, the NUL characters this makes dropped), trimmed.
AsciiNameField(k) ==
  Trim(SelectSeq([j \in 1..Len(NameBytes(k)) |-> NameBytes(k)[j] % 128], NotNul))

\* textures/<name>.wal
Wal(name) ==
  <<116, 101, 120, 116, 117, 114, 101, 115, 47>> \o name \o <<46, 119, 97, 108>>

C7_NormalizationIdempotent ==
  Done =>
    \A n \in 1..Len(Res.textures) :
      LET path == Res.textures[n]
      IN  /\ StartsWith(path, <<116, 101, 120, 116, 117, 114, 101, 115, 47>>)
          /\ EndsWith(path, <<46, 119, 97, 108>>)
          /\ Len(path) >= 13
          /\ TexturePath(SubSeq(path, 10, Len(path) - 4)) = path

\* The list q is in strictly ascending order of code units.
StrictlyAscending(q) == \A k \in 1..(Len(q) - 1) : LexLess(q[k], q[k + 1])

\* C8: each resource list of a returned result is in strictly ascending
\* lexicographic order, hence without duplicates.
C8_ResourceListsSorted ==
  Done =>
    /\ StrictlyAscending(Res.textures)
    /\ StrictlyAscending(Res.skies)
    /\ StrictlyAscending(Res.sounds)
    /\ StrictlyAscending(Res.models)
    /\ StrictlyAscending(Res.others)

\* A call that returned two sounds in another order than the three pairs that
\* name them, one of them twice, appear in the text.
C8_Witness ==
  /\ Done /\ Len(pairs) = 3 /\ Len(Res.sounds) = 2
  /\ Res.sounds # out.sounds
  /\ pairs[1] = pairs[3]

\* The value of the first of the pairs q with a non-empty value and a key in
\* keys, Null if there is none.
FirstValue(q, keys) ==
  LET hits == {k \in 1..Len(q) : q[k][1] \in keys /\ q[k][2] # <<>>}
  IN  IF hits = {} THEN Null
      ELSE Some(q[CHOOSE k \in hits : \A h \in hits : k <= h][2])

NameKeys ==
  { <<109, 101, 115, 115, 97, 103, 101>>,                     \* message
    <<109, 97, 112>>,                                         \* map
    <<109, 97, 112, 110, 97, 109, 101>> }                     \* mapname
VersionKeys ==
  { <<109, 97, 112, 118, 101, 114, 115, 105, 111, 110>>,      \* mapversion
    <<118, 101, 114, 115, 105, 111, 110>> }                   \* version

\* C9: at every point of the pass over the pairs the map name is the raw value
\* of the first pair seen so far with a non-empty value and a key message, map
\* or mapname, the map version that of the first with a key mapversion or
\* version, and unset if there is none; the result returns them.
C9_FirstOccurrenceWins ==
  /\ pc \in {"pairs", "texinfo", "records", "return", "done"} =>
       /\ out.worldInfo.name = FirstValue(SubSeq(pairs, 1, pidx), NameKeys)
       /\ out.worldInfo.version = FirstValue(SubSeq(pairs, 1, pidx), VersionKeys)
  /\ Done =>
       /\ Res.mapName = FirstValue(pairs, NameKeys)
       /\ Res.mapVersion = FirstValue(pairs, VersionKeys)

\* A call that returned the first of two different map names of the text, and
\* one that holds a backslash.
C9_Witness ==
  /\ Done /\ Len(pairs) = 3
  /\ pairs[1][1] \in NameKeys /\ pairs[2][1] \in NameKeys
  /\ 92 \in Elems(pairs[1][2])
  /\ pairs[2][2] # <<>> /\ pairs[2][2] # pairs[1][2]
  /\ Res.mapName = Some(pairs[1][2])
  /\ Res.mapVersion = Some(pairs[3][2])

\* The classname pairs among the first n pairs whose lowercased value is cls.
ClassCount(cls, n) ==
  Cardinality({k \in 1..n :
                 /\ pairs[k][1] = <<99, 108, 97, 115, 115, 110, 97, 109, 101>>
                 /\ pairs[k][2] # <<>>
                 /\ ToLowerCase(pairs[k][2]) = cls})

\* The lowercased classnames among the first n pairs.
ClassesSeen(n) ==
  { ToLowerCase(pairs[k][2]) :
      k \in {h \in 1..n :
               /\ pairs[h][1] = <<99, 108, 97, 115, 115, 110, 97, 109, 101>>
               /\ pairs[h][2] # <<>>} }

\* The counters a table of entityStats must hold after n pairs for the
\* classes that satisfy In.
ExpectedCounters(n, In(_)) ==
  [cls \in {c \in ClassesSeen(n) : In(c)} |-> ClassCount(cls, n)]

IsWeapon(cls) == StartsWith(cls, <<119, 101, 97, 112, 111, 110, 95>>)
IsArmor(cls) == StartsWith(cls, <<105, 116, 101, 109, 95, 97, 114, 109, 111, 114, 95>>)
IsItem(cls) ==
  /\ ~IsWeapon(cls) /\ ~IsArmor(cls)
  /\ ~StartsWith(cls, <<105, 110, 102, 111, 95, 112, 108, 97, 121, 101, 114, 95>>)
  /\ cls \in interestingItems

\* C10: at every point of the pass each counter of entityStats is the number
\* of classname pairs seen so far of its class, the class being decided by the
\* rules in their order: weapon_*, item_armor_*, info_player_* (the four named
\* spawn points only), the item allowlist; nothing else is counted.
C10_CountersCountClassnames ==
  pc \in {"pairs", "texinfo", "records", "return", "done"} =>
    LET es == out.entityStats
    IN  /\ es.weapons = ExpectedCounters(pidx, IsWeapon)
        /\ es.armors = ExpectedCounters(pidx, IsArmor)
        /\ es.items = ExpectedCounters(pidx, IsItem)
        /\ es.spawnPoints =
             [deathmatch |-> ClassCount(S_info_player_deathmatch, pidx),
              coop |-> ClassCount(S_info_player_coop, pidx),
              start |-> ClassCount(S_info_player_start, pidx),
              intermission |-> ClassCount(S_info_player_intermission, pidx)]
        /\ Done => Res.entityStats = es

\* A call that returned on a text with classname weapon_shotgun three times:
\* weapons[weapon_shotgun] is 3 and no other counter has changed.
C10_Witness ==
  /\ Done /\ Len(pairs) = 3
  /\ Res.entityStats =
       [createEmptyEntityStats EXCEPT
          !.weapons = (<<119, 101, 97, 112, 111, 110, 95, 115, 104, 111, 116,
                         103, 117, 110>> :> 3)]

\* The classification step that is about to run, and its pair.
AtPair == pc = "pairs" /\ pidx < Len(pairs)
CurKey == pairs[pidx + 1][1]
CurValue == pairs[pidx + 1][2]

\* C11: the classification step of a pair whose value is the empty string
\* changes nothing, whatever the key: the resource sets, the entityStats
\* counters, the map name and version (so the pair is no first occurrence for
\* them), the diagnostics and the textures stay as they were.
C11_EmptyValueSkipped ==
  [][(AtPair /\ CurValue = <<>>)
       => /\ out' = out
          /\ errors' = errors /\ warnings' = warnings
          /\ textures' = textures]_vars

\* A call that returned on a text whose first pair is message with an empty
\* value and whose second is message with a name: the second one is the map
\* name, and the empty pair left every output untouched.
C11_Witness ==
  /\ Done /\ Len(pairs) = 5
  /\ pairs[1] = <<S_message, <<>>>>
  /\ pairs[2][1] = S_message /\ pairs[2][2] # <<>>
  /\ Res.mapName = Some(pairs[2][2])
  /\ Len(Res.skies) = 1

\* The list q with the elements at the positions where keep is FALSE left out.
RECURSIVE Keep(_, _)
Keep(q, keep) ==
  IF q = <<>> THEN <<>>
  ELSE (IF Head(keep) THEN <<Head(q)>> ELSE <<>>) \o Keep(Tail(q), Tail(keep))

\* The lists obtained from q by leaving elements out, the order kept.
SubLists(q) == { Keep(q, keep) : keep \in [1..Len(q) -> BOOLEAN] }

\* p is a prefix of q.
IsPrefix(p, q) == Len(p) <= Len(q) /\ SubSeq(q, 1, Len(p)) = p

Version == ReadInt32LE(buf, 4)

\* C12: diagnostics are only ever appended (a list is a prefix of what it is
\* one step later), and the returned lists are in emission order with nothing
\* repeated: errors is the signature error (if the magic is wrong) then the
\* lump table error (if the file ends inside the table); warnings is the
\* version warning, the ENTITIES warning, the TEXINFO warning, each present or
\* not; a version other than 38 gives exactly one version warning, first in
\* warnings, and changes nothing in errors.
C12_DiagnosticsInEmissionOrder ==
  /\ [][IsPrefix(errors, errors') /\ IsPrefix(warnings, warnings')]_vars
  /\ [](Done =>
          /\ Res.errors =
               (IF Magic # Q2_MAGIC THEN <<SignatureError(Magic)>> ELSE <<>>)
                 \o (IF Len(buf) < TableEnd THEN <<LumpTableError>> ELSE <<>>)
          /\ Res.warnings \in
               SubLists(<<VersionWarning(Version), EntitiesWarning,
                          TexinfoWarning>>)
          /\ Occurrences(Res.warnings, VersionWarning(Version)) =
               (IF Version # Q2_VERSION THEN 1 ELSE 0))

\* A call that returned both errors and all three warnings.
C12_Witness ==
  /\ Done
  /\ Res.errors = <<SignatureError(Magic), LumpTableError>>
  /\ Res.warnings = <<VersionWarning(46), EntitiesWarning, TexinfoWarning>>

\* C13: while a call runs the buffer is not written, and when a call ends, by
\* returning or by throwing, it ends as every earlier call on the same buffer
\* ended, whatever calls came in between: nothing is carried from call to call.
C13_PureFunctionOfBuffer ==
  /\ [][pc \notin {"done", "thrown"} => buf' = buf]_vars
  /\ [](pc \in {"done", "thrown"} =>
          \A k \in 1..Len(history) :
            history[k].buf = buf => history[k].outcome = Outcome)

\* A third call returned on the buffer of the first, after a call in between
\* on another buffer that counted entities.
C13_Witness ==
  /\ Done /\ Len(history) = 2
  /\ history[1].buf = buf /\ history[2].buf # buf
  /\ ~history[2].outcome.thrown
  /\ history[2].outcome.value[1].entityStats # createEmptyEntityStats
  /\ Res.sounds # <<>>

\* The handler of request r has answered, and its answer.
Responded(r) == response[r] # Null
Resp(r) == response[r][1]

\* What analyzeBspBuffer does on the k-th file of request r taken alone.
OwnAnalysis(r, k) == analyzeBspBuffer(files[r][k].buffer)

\* The result item carries the resources, statistics and diagnostics of the
\* analysis an, with at most the warning of a failed save added.
CarriesAnalysis(item, an) ==
  /\ item.errors = an.errors
  /\ item.warnings \in {an.warnings, Append(an.warnings, SaveWarning)}
  /\ item.textures = an.textures /\ item.skies = an.skies
  /\ item.sounds = an.sounds /\ item.models = an.models
  /\ item.others = an.others
  /\ item.entityStats = an.entityStats

\* C14: once a request is answered, every file of it whose buffer the
\* analysis accepts has its result in the answer, made of that buffer alone,
\* and every file whose buffer makes the analysis throw has none, whatever the
\* other files of the batch are (an answer that failed on listing the saved
\* maps, which no file decides, is left aside).
C14_FilesAnalyzedIndependently ==
  \A r \in Reqs :
    (Responded(r) /\ Resp(r).error # "list") =>
      \A k \in 1..Len(files[r]) :
        IF OwnAnalysis(r, k).pc = "done"
        THEN /\ Resp(r).status = 200
             /\ Len(Resp(r).results) >= k
             /\ CarriesAnalysis(Resp(r).results[k], OwnAnalysis(r, k).result[1])
        ELSE \A h \in 1..Len(Resp(r).results) :
               Resp(r).results[h].file # files[r][k].name

\* The save of the file behind this result item failed.
SaveFailed(item) ==
  item.warnings # <<>> /\ item.warnings[Len(item.warnings)] = SaveWarning

\* C18: once a request in which a save failed is answered, the answer holds
\* one result per uploaded file in upload order, and the result of each file
\* whose save failed has the engine's warnings followed by the save warning.
C18_SaveFailureDoesNotAbort ==
  \A r \in Reqs :
    (Responded(r) /\ \E k \in 1..Len(results[r]) : SaveFailed(results[r][k])) =>
      /\ Resp(r).status = 200
      /\ Len(Resp(r).results) = Len(files[r])
      /\ \A k \in 1..Len(files[r]) :
           /\ Resp(r).results[k].file = files[r][k].name
           /\ SaveFailed(Resp(r).results[k]) =>
                Resp(r).results[k].warnings =
                  Append(OwnAnalysis(r, k).result[1].warnings, SaveWarning)

\* The (mapName, mapVersion) pair of a stored document.
KeyOf(d) == [mapName |-> d.mapName, mapVersion |-> d.mapVersion]

\* The writes applied so far for the pair key, first to last.
SavesOf(key) == {k \in 1..Len(saves) : saves[k].key = key}
FirstSave(key) == CHOOSE k \in SavesOf(key) : \A h \in SavesOf(key) : k <= h
LastSave(key) == CHOOSE k \in SavesOf(key) : \A h \in SavesOf(key) : k >= h

\* The file name without a final .bsp, in any case of letters.
WithoutBsp(name) ==
  IF Len(name) >= 4
       /\ name[Len(name) - 3] = 46
       /\ name[Len(name) - 2] \in {66, 98}
       /\ name[Len(name) - 1] \in {83, 115}
       /\ name[Len(name)] \in {80, 112}
  THEN SubSeq(name, 1, Len(name) - 4)
  ELSE name

\* C19: whatever saves have run and however the requests interleave, the maps
\* collection holds at most one document per (mapName, mapVersion); that
\* document has the fields of the last save applied for the pair and the
\* createdAt of the first; and the mapName of a save is the analysis's map
\* name or, when it found none, the file name without .bsp.
C19_OneDocumentPerMap ==
  /\ \A a, b \in 1..Len(db) : a # b => KeyOf(db[a]) # KeyOf(db[b])
  /\ \A a \in 1..Len(db) :
       /\ SavesOf(KeyOf(db[a])) # {}
       /\ db[a] = Inserted(saves[LastSave(KeyOf(db[a]))].doc,
                           saves[FirstSave(KeyOf(db[a]))].now)
  /\ \A r \in Reqs :
       pending[r] # Null =>
         pending[r][1].key.mapName =
           (IF analysis[r][1].mapName # Null THEN analysis[r][1].mapName
            ELSE Some(WithoutBsp(files[r][fidx[r] + 1].name)))

SoundExtensions ==
  { <<46, 119, 97, 118>>,      \* .wav
    <<46, 111, 103, 103>>,    \* .ogg
    <<46, 109, 112, 51>> }     \* .mp3
ModelExtensions ==
  { <<46, 109, 100, 50>>,      \* .md2
    <<46, 115, 112, 50>>,      \* .sp2
    <<46, 105, 113, 109>>,    \* .iqm
    <<46, 109, 100, 51>> }     \* .md3

\* The set a pair (k, v) with a non-empty value feeds and the element it adds,
\* by the first rule that matches; vv is v with forward slashes.  anyCase
\* tells whether the extensions and the models/ prefix are tested whatever the
\* case of the letters or as they are written.
RuleFor(k, vv, anyCase) ==
  LET t == IF anyCase THEN ToLowerCase(vv) ELSE vv
      isSound == \/ StartsWith(ToLowerCase(vv), <<115, 111, 117, 110, 100, 47>>)      \* sound/
                 \/ \E e \in SoundExtensions : EndsWith(t, e)
      isModel == \/ StartsWith(t, <<109, 111, 100, 101, 108, 115, 47>>)              \* models/
                 \/ \E e \in ModelExtensions : EndsWith(t, e)
      other == [set |-> "others", elem |-> k \o <<61>> \o vv]
  IN  IF k = S_sky
      THEN [set |-> "skies", elem |-> <<101, 110, 118, 47>> \o vv \o <<42>>]    \* env/ vv *
      ELSE IF k \in {S_sound, S_noise, S_snd} \/ StartsWith(k, S_sound)
      THEN IF isSound THEN [set |-> "sounds", elem |-> vv] ELSE other
      ELSE IF k = S_model
      THEN IF isModel THEN [set |-> "models", elem |-> vv] ELSE other
      ELSE IF k \in {S_music, S_cdtrack, S_wav}
      THEN [set |-> "sounds", elem |-> vv]
      ELSE IF k = S_wad \/ IsPathLikeKey(k)
      THEN other
      ELSE [set |-> "none", elem |-> <<>>]

\* The classification step of a pair with a non-empty value leaves each
\* resource set as it was, but for the set of the pair's rule, which gains the
\* rule's element if it does not hold it yet.
AddsByRule(anyCase) ==
  (AtPair /\ CurValue # <<>>) =>
    LET rule == RuleFor(CurKey, ReplaceBackslashes(CurValue), anyCase)
        Fed(name, q) ==
          IF rule.set = name /\ rule.elem \notin Elems(q)
          THEN Append(q, rule.elem) ELSE q
    IN  /\ out'.skies = Fed("skies", out.skies)
        /\ out'.sounds = Fed("sounds", out.sounds)
        /\ out'.models = Fed("models", out.models)
        /\ out'.others = Fed("others", out.others)

\* C15 as stated: each pair with a non-empty value adds at most one element to
\* at most one resource set, by the first matching rule in the stated order,
\* the sound/ prefix being tested case-insensitively and the extensions and
\* the models/ prefix as written.
C15_RulesAsWritten == [][AddsByRule(FALSE)]_vars

\* C15 amended: the same, the extensions and the models/ prefix being tested
\* whatever the case of the letters.
C15_RulesAnyCase == [][AddsByRule(TRUE)]_vars

\* The pass has just put the value a.WAV of a noise pair into sounds.
C15_Witness ==
  /\ pc = "pairs" /\ pidx >= 1
  /\ pairs[pidx] = <<S_noise, <<97, 46, 87, 65, 86>>>>
  /\ out.sounds = <<<<97, 46, 87, 65, 86>>>>

\* The resource sets are left as they are by the step.
ResourcesUnchanged ==
  /\ out'.skies = out.skies /\ out'.sounds = out.sounds
  /\ out'.models = out.models /\ out'.others = out.others

\* The key is classname or a map-metadata key.
IsMetaKey(k) == k = S_classname \/ k \in NameKeys \/ k \in VersionKeys

\* C16: the classification step of a pair with key classname, message, map,
\* mapname, mapversion or version adds nothing to skies, sounds, models or
\* others; that of a pair whose key is none of these and matches no resource
\* rule changes nothing at all: resource sets, entityStats, map name and
\* version, errors and warnings stay as they were.
C16_OtherKeysAddNoResource ==
  [][AtPair =>
       /\ IsMetaKey(CurKey) =>
            ResourcesUnchanged /\ errors' = errors /\ warnings' = warnings
       /\ (~IsMetaKey(CurKey)
             /\ RuleFor(CurKey, ReplaceBackslashes(CurValue), TRUE).set = "none") =>
            out' = out /\ errors' = errors /\ warnings' = warnings]_vars

\* The pass has just counted a classname pair: the counters moved, the
\* resource sets hold what the pairs before it put there and nothing else.
C16_Witness ==
  /\ pc = "pairs" /\ pidx = 3
  /\ pairs[3] = <<S_classname, <<119, 101, 97, 112, 111, 110, 95, 115, 104, 111, 116, 103, 117, 110>>>>
  /\ out.entityStats # createEmptyEntityStats
  /\ out.sounds = <<<<97, 46, 119, 97, 118>>>>
  /\ out.skies = <<>> /\ out.models = <<>> /\ out.others = <<>>

\* The ENTITIES text as the tokenizer receives it.
EntText ==
  BufToString(buf, EntEntry[1].offset, EntEntry[1].offset + EntEntry[1].length)

Least(S) == CHOOSE x \in S : \A y \in S : x <= y

\* The positions after p that hold a double quote, and those that hold
\* something else than a blank.
QuotesAfter(txt, p) == {q \in (p + 1)..Len(txt) : txt[q] = 34}
NonBlanksAfter(txt, p) == {q \in (p + 1)..Len(txt) : ~IsSpace(txt[q])}

\* The occurrence of two quoted strings, the first one non-empty, with only
\* blanks between them, that begins with the quote at position p: where it
\* begins and ends and its two strings; Null if there is none.
PairAt(txt, p) ==
  IF txt[p] # 34 \/ QuotesAfter(txt, p) = {} THEN Null
  ELSE LET q1 == Least(QuotesAfter(txt, p))
       IN  IF q1 = p + 1 \/ NonBlanksAfter(txt, q1) = {} THEN Null
           ELSE LET r == Least(NonBlanksAfter(txt, q1))
                IN  IF txt[r] # 34 \/ QuotesAfter(txt, r) = {} THEN Null
                    ELSE Some([from |-> p,
                               to |-> Least(QuotesAfter(txt, r)),
                               first |-> SubSeq(txt, p + 1, q1 - 1),
                               second |-> SubSeq(txt, r + 1,
                                                 Least(QuotesAfter(txt, r)) - 1)])

\* The occurrences a scan from left to right keeps: the leftmost one, then
\* the leftmost one that begins after it, and so on.
RECURSIVE KeptFrom(_, _, _)
KeptFrom(txt, starts, lo) ==
  IF {p \in starts : p >= lo} = {} THEN <<>>
  ELSE LET m == PairAt(txt, Least({p \in starts : p >= lo}))[1]
       IN  <<m>> \o KeptFrom(txt, starts, m.to + 1)

Kept(txt) ==
  KeptFrom(txt, {p \in 1..Len(txt) : txt[p] = 34 /\ PairAt(txt, p) # Null}, 1)

\* C17: the pairs the tokenizer emits from the ENTITIES text are, in order,
\* the occurrences of two quoted strings that a scan of the flat text from
\* left to right keeps, none beginning before the one before it has ended;
\* each key is the first string in lower case and is not empty, each value is
\* the second string as it stands; and the tokenizer adds no diagnostic.
C17_TokenizerScansFlatText ==
  /\ [](pc = "pairs" /\ pidx = 0 =>
          LET kept == Kept(EntText)
          IN  /\ Len(pairs) = Len(kept)
              /\ \A n \in 1..Len(pairs) :
                   /\ pairs[n] = <<ToLowerCase(kept[n].first), kept[n].second>>
                   /\ pairs[n][1] # <<>>
                   /\ n > 1 => kept[n - 1].to < kept[n].from)
  /\ [][pc = "entities" /\ pc' = "pairs" =>
          errors' = errors /\ warnings' = warnings]_vars

\* Four quoted strings in a row, a B B a between braces, have been tokenized:
\* the pairs are (a, B) and (b, a), the second string of the first pair is in
\* no other pair, the keys are in lower case and the values as written.
C17_Witness ==
  /\ pc = "pairs" /\ pidx = 0
  /\ EntText = <<123, 34, 97, 34, 34, 66, 34, 34, 66, 34, 34, 97, 34, 125, 0>>
  /\ pairs = << <<<<97>>, <<66>>>>, <<<<98>>, <<97>>>> >>

=============================================================================
